---- MODULE Spec2Model ----
(***************************************************************************)
(* TransactionalEntitySubscriberBase (typeorm-transactional-subscriber).   *)
(*                                                                         *)
(* The subscriber keeps its per-transaction state in two hidden fields of  *)
(* the QueryRunner object: _transactionalSubscriberDepth (a number) and    *)
(* _transactionalSubscriberStore ({inserted, updated, removed}).  TypeORM  *)
(* delivers afterTransactionStart / afterInsert / afterUpdate /            *)
(* afterRemove / afterTransactionCommit / afterTransactionRollback; the    *)
(* subclass may implement afterInsertCommitted / afterUpdateCommitted /    *)
(* afterRemoveCommitted.                                                   *)
(*                                                                         *)
(* afterTransactionCommit is an async function that awaits every handler:  *)
(* it is modelled as a coroutine that runs until its next await, and is    *)
(* resumed when the awaited handler settles (fulfils or rejects).          *)
(***************************************************************************)
EXTENDS Integers, Sequences, FiniteSets, TLC

\* ------------------------------------------------------------------ bounds
\* Number of entity events (payloads 1..MaxEvents) TypeORM delivers in a run.
MaxEvents == 3
\* Largest value the depth counter is driven to by start notifications.
MaxDepth == 2

\* ------------------------------------------------------------- the domain
\* QueryRunner objects; NoQR is a missing (null/undefined) queryRunner.
QueryRunners == {"qrA", "qrB"}
NoQR == "null"
\* Subscriber instances (subclasses of the base class).
Subscribers == {"s1", "s2"}
\* The replay with the first two loops in the other order (a plausible slip).
CategoriesSwapped == <<"updated", "inserted", "removed">>

\* The event categories of the store, in the order afterTransactionCommit
\* replays them, and the after*Committed hook of each.
Categories == <<"inserted", "updated", "removed">>
CategorySet == {Categories[i] : i \in 1..Len(Categories)}

VARIABLES
    queryRunner,     \* [QueryRunners -> the hidden fields on that object]
    implemented,     \* [Subscribers -> the categories whose hook is a function]
    task,            \* [QueryRunners -> the suspended afterTransactionCommit]
    nextId,          \* payload of the next entity event
    last,            \* the notification delivered most recently and its effect
    settled,         \* how the most recent step settled an awaited hook, if it did
    shape,           \* history: what has happened on a handle since it was idle
    rolledBack,      \* history: events in the store at an outermost rollback
    innerCommitted,  \* history: events in the store at an inner commit
    scopeFrom        \* history: 1 + the newest payload queued before the last
                     \* start; 0 once a commit or rollback has arrived since

vars == <<queryRunner, implemented, task, nextId, last, settled, shape,
          rolledBack, innerCommitted, scopeFrom>>

\* --------------------------------------------------- the QueryRunner fields
EmptyStore == [inserted |-> <<>>, updated |-> <<>>, removed |-> <<>>]

\* A QueryRunner no subscriber has touched: both hidden fields undefined.
FreshRunner ==
    [depthIsNumber |-> FALSE, depth |-> 0, hasStore |-> FALSE, store |-> EmptyStore]

\* getOrCreateTxStore(queryRunner) for a queryRunner that is not null.
getOrCreateTxStore(q) ==
    IF ~q.hasStore
    THEN [q EXCEPT !.hasStore = TRUE, !.store = EmptyStore]
    ELSE q

\* getOrCreateTxDepth(queryRunner) for a queryRunner that is not null: the
\* field is initialised to 0 when it is not a number.
getOrCreateTxDepth(q) ==
    IF ~q.depthIsNumber
    THEN [q EXCEPT !.depthIsNumber = TRUE, !.depth = 0]
    ELSE q

\* An increment that marks the transaction open instead of counting, as
\* before nested transactions were supported (a plausible slip).
incrementTxDepthSetsOne(q) == [getOrCreateTxDepth(q) EXCEPT !.depth = 1]

\* incrementTxDepth(queryRunner) for a queryRunner that is not null.
incrementTxDepth(q) ==
    LET q0 == getOrCreateTxDepth(q)
    IN  [q0 EXCEPT !.depth = q0.depth + 1]

\* A decrement that resets the counter, as before nested transactions were
\* supported (a plausible slip).
decrementTxDepthToZero(q) == [getOrCreateTxDepth(q) EXCEPT !.depth = 0]

\* decrementTxDepth without the clamp at 0 (a plausible slip).
decrementTxDepthNoClamp(q) ==
    LET q0 == getOrCreateTxDepth(q)
    IN  [q0 EXCEPT !.depth = q0.depth - 1]

\* decrementTxDepth(queryRunner) for a queryRunner that is not null.
decrementTxDepth(q) ==
    LET q0 == getOrCreateTxDepth(q)
        d  == q0.depth - 1
    IN  [q0 EXCEPT !.depth = IF d < 0 THEN 0 ELSE d]

\* The number getOrCreateTxDepth returns (0 for a field that is not a number).
DepthOf(q) == IF q.depthIsNumber THEN q.depth ELSE 0

\* store.<cat>.push(event)
Push(q, cat, e) == [q EXCEPT !.store[cat] = Append(@, e)]

\* A clear that leaves the removed array as it was.
ClearStoreKeepsRemoved(q) ==
    [q EXCEPT !.store = [EmptyStore EXCEPT !.removed = q.store.removed]]

\* A clear that forgets one of the three arrays (a plausible slip).
ClearStoreForgetsUpdated(q) ==
    [q EXCEPT !.store.inserted = <<>>, !.store.removed = <<>>]

\* store.inserted = []; store.updated = []; store.removed = [];
ClearStore(q) == [q EXCEPT !.store = EmptyStore]

\* The payloads held in a store, over all categories.
Events(st) ==
    UNION {{st[c][i] : i \in 1..Len(st[c])} : c \in CategorySet}

\* ------------------------------------------------------------ the coroutine
\* The record of one notification: what was delivered (op, sub, qr, the
\* isTransactionActive flag, the payload), the handle's state when it
\* arrived (preDepth, preShape, pre; preScope, the events queued since the
\* last start while no commit or rollback has arrived; follows, whether the
\* notification before it closed a scope of the same handle), the hooks it
\* has called so far, in order, how it stands: "awaiting" a hook,
\* "returned", or "threw", and the events it dropped (see Dropped).
NoNotification ==
    [op |-> "none", sub |-> "s1", qr |-> NoQR, active |-> FALSE, id |-> 0,
     preDepth |-> 0, preShape |-> "idle", pre |-> EmptyStore,
     preScope |-> {}, follows |-> "other", dropped |-> {},
     calls |-> <<>>, status |-> "returned"]

\* No afterTransactionCommit is suspended on the handle.
IdleTask == [pc |-> "idle", cat |-> 1, idx |-> 1, alias |-> TRUE,
             arr |-> <<>>, rec |-> NoNotification]

\* The array a suspended for-of loop iterates: the store's own array while
\* the store still refers to it, the detached array after a reassignment.
IterArray(t, q) == IF t.alias THEN q.store[Categories[t.cat]] ELSE t.arr

\* A replay that looks at the arrays only, not at whether the hook exists.
NextCategoryIgnoresTypeof(s, st, c) ==
    LET ok == {k \in c..Len(Categories) : Len(st[Categories[k]]) > 0}
    IN  IF ok = {} THEN 0 ELSE CHOOSE k \in ok : \A j \in ok : k <= j

\* The first category from position c on whose hook is implemented by s and
\* whose array is not empty; 0 when the replay has nothing left to call.
NextCategory(s, st, c) ==
    LET ok == {k \in c..Len(Categories) :
                  /\ Categories[k] \in implemented[s]
                  /\ Len(st[Categories[k]]) > 0}
    IN  IF ok = {} THEN 0 ELSE CHOOSE k \in ok : \A j \in ok : k <= j

\* The step did not settle a hook of a suspended afterTransactionCommit.
NoSettle == [threw |-> FALSE, n |-> 0]

Idle == \A qr \in QueryRunners : task[qr].pc = "idle"

\* ------------------------------------------------------------------- Init
\* The state after construction, with the subscribers of S registered: a
\* subclass implements any subset of the three hooks.
InitOver(S) ==
    /\ queryRunner = [qr \in QueryRunners |-> FreshRunner]
    /\ implemented \in {f \in [Subscribers -> SUBSET CategorySet] :
                           \A s \in Subscribers \ S : f[s] = {}}
    /\ task = [qr \in QueryRunners |-> IdleTask]
    /\ nextId = 1
    /\ last = NoNotification
    /\ settled = NoSettle
    /\ shape = [qr \in QueryRunners |-> "idle"]
    /\ rolledBack = {}
    /\ innerCommitted = {}
    /\ scopeFrom = [qr \in QueryRunners |-> 0]

Init == InitOver({"s1"})

\* ------------------------------------------------------- the notifications
\* The newest payload in a store, 0 for an empty one (payloads are numbered
\* as they arrive).
Newest(st) ==
    IF Events(st) = {} THEN 0
    ELSE CHOOSE e \in Events(st) : \A f \in Events(st) : f <= e

\* The events queued on a handle since its last start notification, while
\* no commit or rollback has arrived since.
ScopeEvents(qr) ==
    IF scopeFrom[qr] = 0
    THEN {}
    ELSE {e \in Events(queryRunner[qr].store) : e >= scopeFrom[qr]}

\* What the notification before this one was, for a notification on qr:
\* "drained" after a commit on qr that left depth 0, replayed and returned,
\* "innerRollback" after a rollback on qr that left the depth above 0.
Follows(qr) ==
    IF qr = NoQR \/ last.qr # qr THEN "other"
    ELSE IF last.op = "commit" /\ last.status = "returned" /\ last.calls # <<>>
         THEN "drained"
    ELSE IF last.op = "rollback" /\ last.preDepth >= 2
         THEN "innerRollback"
    ELSE "other"

\* The record of a notification as it arrives for subscriber s on handle qr.
Arrival(op, s, qr, active, id) ==
    [op |-> op, sub |-> s, qr |-> qr, active |-> active, id |-> id,
     preDepth |-> IF qr = NoQR THEN 0 ELSE DepthOf(queryRunner[qr]),
     preShape |-> IF qr = NoQR THEN "idle" ELSE shape[qr],
     pre |-> IF qr = NoQR THEN EmptyStore ELSE queryRunner[qr].store,
     preScope |-> IF qr = NoQR THEN {}
                  ELSE IF Follows(qr) = "innerRollback" THEN last.preScope
                  ELSE ScopeEvents(qr),
     follows |-> Follows(qr), dropped |-> {},
     calls |-> <<>>, status |-> "returned"]

\* A start without the `if (!queryRunner) return` guard: reading a field of
\* a missing queryRunner throws (a plausible slip).
afterTransactionStartNoNullGuard(s, qr) ==
    /\ qr # NoQR => DepthOf(queryRunner[qr]) < MaxDepth
    /\ settled' = NoSettle
    /\ IF qr = NoQR
       THEN /\ last' = [Arrival("start", s, qr, FALSE, 0) EXCEPT !.status = "threw"]
            /\ UNCHANGED <<queryRunner, shape, scopeFrom>>
       ELSE /\ last' = Arrival("start", s, qr, FALSE, 0)
            /\ queryRunner' = [queryRunner EXCEPT ![qr] = incrementTxDepth(@)]
            /\ shape' = [shape EXCEPT ![qr] =
                             IF DepthOf(queryRunner[qr]) = 0 THEN "flat" ELSE "other"]
            /\ scopeFrom' = [scopeFrom EXCEPT ![qr] =
                                  Newest(queryRunner[qr].store) + 1]
    /\ UNCHANGED <<implemented, task, nextId, rolledBack, innerCommitted>>

\* A start that counts on the subscriber instance instead of the QueryRunner,
\* so that every QueryRunner sees the increment (a plausible slip).
afterTransactionStartOnInstance(s, qr) ==
    /\ qr # NoQR => DepthOf(queryRunner[qr]) < MaxDepth
    /\ last' = Arrival("start", s, qr, FALSE, 0)
    /\ settled' = NoSettle
    /\ IF qr = NoQR
       THEN UNCHANGED <<queryRunner, shape, scopeFrom>>
       ELSE /\ queryRunner' = [x \in QueryRunners |-> incrementTxDepth(queryRunner[x])]
            /\ shape' = [shape EXCEPT ![qr] =
                             IF DepthOf(queryRunner[qr]) = 0 THEN "flat" ELSE "other"]
            /\ scopeFrom' = [scopeFrom EXCEPT ![qr] =
                                  Newest(queryRunner[qr].store) + 1]
    /\ UNCHANGED <<implemented, task, nextId, rolledBack, innerCommitted>>

\* afterTransactionStart(event): incrementTxDepth(event.queryRunner).
afterTransactionStart(s, qr) ==
    /\ qr # NoQR => DepthOf(queryRunner[qr]) < MaxDepth
    /\ last' = Arrival("start", s, qr, FALSE, 0)
    /\ settled' = NoSettle
    /\ IF qr = NoQR
       THEN UNCHANGED <<queryRunner, shape, scopeFrom>>
       ELSE /\ queryRunner' = [queryRunner EXCEPT ![qr] = incrementTxDepth(@)]
            /\ shape' = [shape EXCEPT ![qr] =
                             IF DepthOf(queryRunner[qr]) = 0 THEN "flat" ELSE "other"]
            /\ scopeFrom' = [scopeFrom EXCEPT ![qr] =
                                  Newest(queryRunner[qr].store) + 1]
    /\ UNCHANGED <<implemented, task, nextId, rolledBack, innerCommitted>>

\* A condition that ignores the isTransactionActive flag (a plausible slip).
InTransactionIgnoresFlag(qr, active) == qr # NoQR

\* event.queryRunner && event.queryRunner.isTransactionActive
InTransaction(qr, active) == qr # NoQR /\ active

\* The body shared by afterInsert, afterUpdate and afterRemove, for the event
\* object with payload id: inside an active transaction the event is pushed
\* to the store; otherwise the hook, when the subclass implements it, is
\* called and awaited (it fulfils or rejects, and so does the notification).
Deliver(cat, op, s, qr, active, id) ==
    /\ settled' = NoSettle
    /\ LET a == Arrival(op, s, qr, active, id)
       IN  IF InTransaction(qr, active)
           THEN /\ queryRunner' = [queryRunner EXCEPT ![qr] =
                                      Push(getOrCreateTxStore(@), cat, id)]
                /\ last' = a
                /\ UNCHANGED shape
           ELSE /\ IF cat \in implemented[s]
                   THEN \E threw \in BOOLEAN :
                          last' = [a EXCEPT !.calls = <<<<cat, id>>>>,
                                            !.status = IF threw THEN "threw"
                                                       ELSE "returned"]
                   ELSE last' = a
                /\ shape' = IF qr # NoQR /\ shape[qr] = "flat"
                            THEN [shape EXCEPT ![qr] = "other"]
                            ELSE shape
                /\ UNCHANGED queryRunner
    /\ UNCHANGED <<implemented, task, rolledBack, innerCommitted, scopeFrom>>

\* An entity notification for a new event object.
EntityEvent(cat, op, s, qr, active) ==
    /\ nextId <= MaxEvents
    /\ nextId' = nextId + 1
    /\ Deliver(cat, op, s, qr, active, nextId)

afterInsert(s, qr, active) == EntityEvent("inserted", "insert", s, qr, active)

afterUpdate(s, qr, active) == EntityEvent("updated", "update", s, qr, active)

afterRemove(s, qr, active) == EntityEvent("removed", "remove", s, qr, active)

\* The events that the final assignments of a replay remove from store st
\* although they were not in the store when the commit arrived and were
\* passed to no hook.
Dropped(st, rec) ==
    Events(st) \ (Events(rec.pre) \cup {rec.calls[i][2] : i \in 1..Len(rec.calls)})

\* afterTransactionCommit from a point where it holds no hook's promise:
\* it runs the remaining `if (typeof hook === "function") for (...)` blocks
\* from category c on until it calls a hook and awaits it, or, when nothing
\* is left to call, assigns three fresh empty arrays and returns.
RunReplay(qr, q, rec, c) ==
    LET k == NextCategory(rec.sub, q.store, c)
    IN  IF k = 0
        THEN /\ queryRunner' = [queryRunner EXCEPT ![qr] = ClearStore(q)]
             /\ task' = [task EXCEPT ![qr] = IdleTask]
             /\ last' = [rec EXCEPT !.status = "returned",
                                    !.dropped = Dropped(q.store, rec)]
        ELSE LET r == [rec EXCEPT
                         !.calls = Append(@, <<Categories[k], q.store[Categories[k]][1]>>),
                         !.status = "awaiting"]
             IN  /\ queryRunner' = [queryRunner EXCEPT ![qr] = q]
                 /\ task' = [task EXCEPT ![qr] =
                               [pc |-> "await", cat |-> k, idx |-> 1,
                                alias |-> TRUE, arr |-> <<>>, rec |-> r]]
                 /\ last' = r

\* A commit that replays only when it closes a transaction whose start it
\* has counted, and does nothing at depth 0 (a plausible slip).
afterTransactionCommitNeedsStart(s, qr) ==
    /\ qr # NoQR => task[qr].pc = "idle"
    /\ settled' = NoSettle
    /\ LET a == Arrival("commit", s, qr, FALSE, 0)
       IN  IF qr = NoQR \/ a.preDepth = 0
           THEN /\ last' = a
                /\ UNCHANGED <<queryRunner, task, shape, innerCommitted>>
           ELSE LET q1 == decrementTxDepth(queryRunner[qr])
                IN  IF DepthOf(q1) = 0
                    THEN /\ RunReplay(qr, getOrCreateTxStore(q1), a, 1)
                         /\ shape' = [shape EXCEPT ![qr] = "idle"]
                         /\ UNCHANGED innerCommitted
                    ELSE /\ queryRunner' = [queryRunner EXCEPT ![qr] = q1]
                         /\ last' = a
                         /\ shape' = [shape EXCEPT ![qr] = "other"]
                         /\ innerCommitted' = innerCommitted \cup Events(q1.store)
                         /\ UNCHANGED task
    /\ scopeFrom' = IF qr = NoQR THEN scopeFrom
                     ELSE [scopeFrom EXCEPT ![qr] = 0]
    /\ UNCHANGED <<implemented, nextId, rolledBack>>

\* afterTransactionCommit(event), up to its first await (or its return).
afterTransactionCommit(s, qr) ==
    /\ qr # NoQR => task[qr].pc = "idle"
    /\ settled' = NoSettle
    /\ LET a == Arrival("commit", s, qr, FALSE, 0)
       IN  IF qr = NoQR
           THEN /\ last' = a
                /\ UNCHANGED <<queryRunner, task, shape, innerCommitted>>
           ELSE LET q1 == decrementTxDepth(queryRunner[qr])
                IN  IF DepthOf(q1) = 0
                    THEN /\ RunReplay(qr, getOrCreateTxStore(q1), a, 1)
                         /\ shape' = [shape EXCEPT ![qr] = "idle"]
                         /\ UNCHANGED innerCommitted
                    ELSE /\ queryRunner' = [queryRunner EXCEPT ![qr] = q1]
                         /\ last' = a
                         /\ shape' = [shape EXCEPT ![qr] = "other"]
                         /\ innerCommitted' = innerCommitted \cup Events(q1.store)
                         /\ UNCHANGED task
    /\ scopeFrom' = IF qr = NoQR THEN scopeFrom
                     ELSE [scopeFrom EXCEPT ![qr] = 0]
    /\ UNCHANGED <<implemented, nextId, rolledBack>>

\* A loop that leaves its array after the first element (a plausible slip:
\* a break in the loop body).
HookFulfilledSkipsRest(qr) ==
    /\ RunReplay(qr, queryRunner[qr], task[qr].rec, task[qr].cat + 1)

\* A loop that calls the hook for the next two elements without awaiting the
\* first of them (a plausible slip: a missing await).
HookFulfilledNoAwait(qr) ==
    LET t   == task[qr]
        arr == IterArray(t, queryRunner[qr])
    IN  IF t.idx + 2 <= Len(arr)
        THEN LET r == [t.rec EXCEPT
                         !.calls = @ \o << <<Categories[t.cat], arr[t.idx + 1]>>,
                                           <<Categories[t.cat], arr[t.idx + 2]>> >>]
             IN  /\ task' = [task EXCEPT ![qr] = [t EXCEPT !.idx = t.idx + 2, !.rec = r]]
                 /\ last' = r
                 /\ UNCHANGED queryRunner
        ELSE RunReplay(qr, queryRunner[qr], t.rec, t.cat + 1)

\* The awaited hook fulfils: the for-of loop takes the next element of the
\* array it iterates, or the function goes on to the next category.
HookFulfilled(qr) ==
    LET t   == task[qr]
        arr == IterArray(t, queryRunner[qr])
    IN  IF t.idx + 1 <= Len(arr)
        THEN LET r == [t.rec EXCEPT
                         !.calls = Append(@, <<Categories[t.cat], arr[t.idx + 1]>>)]
             IN  /\ task' = [task EXCEPT ![qr] = [t EXCEPT !.idx = t.idx + 1, !.rec = r]]
                 /\ last' = r
                 /\ UNCHANGED queryRunner
        ELSE RunReplay(qr, queryRunner[qr], t.rec, t.cat + 1)

\* A rejection that is caught and ignored, the replay going on (a plausible
\* slip: a try/catch around the hook call).
HookRejectedSwallowed(qr) == HookFulfilled(qr)

\* The awaited hook rejects: the await throws, nothing catches it, and the
\* promise of afterTransactionCommit rejects with the same error.  The
\* lines that reassign the store's arrays are not reached.
HookRejected(qr) ==
    /\ task' = [task EXCEPT ![qr] = IdleTask]
    /\ last' = [task[qr].rec EXCEPT !.status = "threw"]
    /\ UNCHANGED queryRunner

\* The hook that the suspended afterTransactionCommit awaits settles.
HookSettles(qr, threw) ==
    /\ task[qr].pc = "await"
    /\ settled' = [threw |-> threw, n |-> Len(task[qr].rec.calls)]
    /\ IF threw THEN HookRejected(qr) ELSE HookFulfilled(qr)
    /\ UNCHANGED <<implemented, nextId, shape, rolledBack, innerCommitted,
                   scopeFrom>>

\* A rollback that leaves the queued events in place (a plausible slip).
RollbackStoreKept(q) == getOrCreateTxStore(q)

\* The store branch of afterTransactionRollback at depth 0: the store is
\* looked up (and created when absent) and its three arrays are reassigned.
RollbackStore(q) == ClearStore(getOrCreateTxStore(q))

\* A rollback that clears the store whatever depth it leaves, as before
\* nested transactions were supported (a plausible slip).
afterTransactionRollbackAlwaysClears(s, qr) ==
    /\ settled' = NoSettle
    /\ last' = Arrival("rollback", s, qr, FALSE, 0)
    /\ IF qr = NoQR
       THEN UNCHANGED <<queryRunner, shape, scopeFrom>>
       ELSE /\ queryRunner' = [queryRunner EXCEPT ![qr] =
                                  RollbackStore(decrementTxDepth(@))]
            /\ shape' = [shape EXCEPT ![qr] = "other"]
            /\ scopeFrom' = [scopeFrom EXCEPT ![qr] = 0]
    /\ UNCHANGED <<implemented, task, nextId, rolledBack, innerCommitted>>

\* afterTransactionRollback(event).  Reassigning the store's arrays leaves a
\* suspended for-of loop with the array object it started on.
afterTransactionRollback(s, qr) ==
    /\ settled' = NoSettle
    /\ LET a == Arrival("rollback", s, qr, FALSE, 0)
       IN  /\ last' = a
           /\ IF qr = NoQR
              THEN UNCHANGED <<queryRunner, task, shape, rolledBack>>
              ELSE LET q1 == decrementTxDepth(queryRunner[qr])
                       t  == task[qr]
                   IN  IF DepthOf(q1) = 0
                       THEN /\ queryRunner' = [queryRunner EXCEPT ![qr] = RollbackStore(q1)]
                            /\ task' = IF t.pc = "await" /\ t.alias
                                       THEN [task EXCEPT ![qr] =
                                               [t EXCEPT !.alias = FALSE,
                                                         !.arr = IterArray(t, q1)]]
                                       ELSE task
                            /\ shape' = [shape EXCEPT ![qr] = "idle"]
                            /\ rolledBack' = IF a.preDepth = 1
                                             THEN rolledBack \cup Events(q1.store)
                                             ELSE rolledBack
                       ELSE /\ queryRunner' = [queryRunner EXCEPT ![qr] = q1]
                            /\ shape' = [shape EXCEPT ![qr] = "other"]
                            /\ UNCHANGED <<task, rolledBack>>
    /\ scopeFrom' = IF qr = NoQR THEN scopeFrom
                     ELSE [scopeFrom EXCEPT ![qr] = 0]
    /\ UNCHANGED <<implemented, nextId, innerCommitted>>

\* ---------------------------------------------------------- specification
\* TypeORM awaits each broadcast before it goes on: one subscriber, one
\* QueryRunner (or none), one notification at a time.
Handles == {"qrA", NoQR}

Flags(qr) == IF qr = NoQR THEN {FALSE} ELSE BOOLEAN

Next ==
    \/ \E qr \in Handles : Idle /\ afterTransactionStart("s1", qr)
    \/ \E qr \in Handles : \E active \in Flags(qr) : Idle /\ afterInsert("s1", qr, active)
    \/ \E qr \in Handles : \E active \in Flags(qr) : Idle /\ afterUpdate("s1", qr, active)
    \/ \E qr \in Handles : \E active \in Flags(qr) : Idle /\ afterRemove("s1", qr, active)
    \/ \E qr \in Handles : Idle /\ afterTransactionCommit("s1", qr)
    \/ \E qr \in Handles : Idle /\ afterTransactionRollback("s1", qr)
    \/ \E qr \in QueryRunners : \E threw \in BOOLEAN : HookSettles(qr, threw)

Spec == Init /\ [][Next]_vars

\* A soft-remove broadcast. The class declares no afterSoftRemove method and
\* its store has no array for soft-removed entities, so TypeORM finds nothing
\* to call on the subscriber: the payload is neither queued nor passed to a
\* hook, whatever the flag says.
afterSoftRemove(s, qr, active) ==
    /\ nextId <= MaxEvents
    /\ nextId' = nextId + 1
    /\ settled' = NoSettle
    /\ last' = Arrival("softRemove", s, qr, active, nextId)
    /\ UNCHANGED <<queryRunner, implemented, task, shape, rolledBack,
                   innerCommitted, scopeFrom>>

\* The notifications of Next, and soft-remove broadcasts among them.
NextSoftRemove ==
    \/ Next
    \/ \E qr \in Handles : \E active \in Flags(qr) : Idle /\ afterSoftRemove("s1", qr, active)

SpecSoftRemove == Init /\ [][NextSoftRemove]_vars

\* The flag TypeORM reports with an entity event when every transaction is
\* opened and closed through the notifications: true from the start of the
\* outermost transaction to its commit or rollback.
ProtocolFlags(qr) ==
    IF qr # NoQR /\ DepthOf(queryRunner[qr]) >= 1 THEN {TRUE} ELSE {FALSE}

\* A commit or rollback closes a transaction that a start has opened.
Open(qr) == qr # NoQR /\ DepthOf(queryRunner[qr]) >= 1

\* One notification at a time, from a caller that opens every transaction
\* with a start and closes only what it opened.
NextProtocol ==
    \/ \E qr \in Handles : Idle /\ afterTransactionStart("s1", qr)
    \/ \E qr \in Handles : \E active \in ProtocolFlags(qr) : Idle /\ afterInsert("s1", qr, active)
    \/ \E qr \in Handles : \E active \in ProtocolFlags(qr) : Idle /\ afterUpdate("s1", qr, active)
    \/ \E qr \in Handles : \E active \in ProtocolFlags(qr) : Idle /\ afterRemove("s1", qr, active)
    \/ \E qr \in Handles : Idle /\ Open(qr) /\ afterTransactionCommit("s1", qr)
    \/ \E qr \in Handles : Idle /\ Open(qr) /\ afterTransactionRollback("s1", qr)
    \/ \E qr \in QueryRunners : \E threw \in BOOLEAN : HookSettles(qr, threw)

SpecProtocol == Init /\ [][NextProtocol]_vars

\* The same caller, not waiting for a suspended afterTransactionCommit: while
\* the replay awaits a hook, the QueryRunner is used again (by the hook
\* itself or by other code of the application) and further notifications
\* arrive on it.  One afterTransactionCommit per QueryRunner is in flight.
NextConcurrent ==
    \/ \E qr \in Handles : afterTransactionStart("s1", qr)
    \/ \E qr \in Handles : \E active \in ProtocolFlags(qr) : afterInsert("s1", qr, active)
    \/ \E qr \in Handles : \E active \in ProtocolFlags(qr) : afterUpdate("s1", qr, active)
    \/ \E qr \in Handles : \E active \in ProtocolFlags(qr) : afterRemove("s1", qr, active)
    \/ \E qr \in Handles : Open(qr) /\ afterTransactionCommit("s1", qr)
    \/ \E qr \in Handles : Open(qr) /\ afterTransactionRollback("s1", qr)
    \/ \E qr \in QueryRunners : \E threw \in BOOLEAN : HookSettles(qr, threw)

SpecConcurrent == Init /\ [][NextConcurrent]_vars

\* No afterTransactionCommit of this QueryRunner is suspended at an await.
IdleOn(qr) == task[qr].pc = "idle"

\* Two QueryRunners in use at once (two connections of a pool), each by a
\* caller that opens every transaction with a start: TypeORM awaits each
\* broadcast of a QueryRunner before the next one of the same QueryRunner,
\* while the notifications of the other one arrive in between, also while a
\* replay is suspended.  afterInsert stands for the three entity
\* notifications, which differ only in the array they push to.
NextTwoHandles ==
    \/ \E qr \in QueryRunners : IdleOn(qr) /\ afterTransactionStart("s1", qr)
    \/ \E qr \in QueryRunners : \E active \in ProtocolFlags(qr) :
          IdleOn(qr) /\ afterInsert("s1", qr, active)
    \/ \E qr \in QueryRunners : IdleOn(qr) /\ Open(qr) /\ afterTransactionCommit("s1", qr)
    \/ \E qr \in QueryRunners : IdleOn(qr) /\ Open(qr) /\ afterTransactionRollback("s1", qr)
    \/ \E qr \in QueryRunners : \E threw \in BOOLEAN : HookSettles(qr, threw)

\* One subscriber whose subclass implements all three hooks.
InitAllHooks == InitOver({"s1"}) /\ implemented["s1"] = CategorySet

SpecTwoHandles == InitAllHooks /\ [][NextTwoHandles]_vars

\* Two subclasses registered on one connection, each with all three hooks.
InitTwoSubscribers ==
    /\ InitOver(Subscribers)
    /\ \A s \in Subscribers : implemented[s] = CategorySet

\* The broadcast that subscriber "s1" has received has not yet been passed
\* to "s2".
HalfBroadcast == last.op # "none" /\ last.sub = "s1"

\* TypeORM passes the notification that "s1" has just received to "s2": the
\* same event object, on the same QueryRunner.
SecondDelivery ==
    /\ HalfBroadcast
    /\ CASE last.op = "start" -> afterTransactionStart("s2", last.qr)
         [] last.op = "commit" -> afterTransactionCommit("s2", last.qr)
         [] last.op = "rollback" -> afterTransactionRollback("s2", last.qr)
         [] last.op = "insert" ->
              Deliver("inserted", "insert", "s2", last.qr, last.active, last.id)
              /\ UNCHANGED nextId
         [] last.op = "update" ->
              Deliver("updated", "update", "s2", last.qr, last.active, last.id)
              /\ UNCHANGED nextId
         [] last.op = "remove" ->
              Deliver("removed", "remove", "s2", last.qr, last.active, last.id)
              /\ UNCHANGED nextId

\* TypeORM broadcasts every notification of one QueryRunner to the two
\* subscribers in the order of registration, and awaits a broadcast before
\* the next; the caller opens every transaction with a start.
NextTwoSubscribers ==
    \/ Idle /\ ~HalfBroadcast /\ afterTransactionStart("s1", "qrA")
    \/ \E active \in ProtocolFlags("qrA") :
          Idle /\ ~HalfBroadcast /\ afterInsert("s1", "qrA", active)
    \/ \E active \in ProtocolFlags("qrA") :
          Idle /\ ~HalfBroadcast /\ afterUpdate("s1", "qrA", active)
    \/ \E active \in ProtocolFlags("qrA") :
          Idle /\ ~HalfBroadcast /\ afterRemove("s1", "qrA", active)
    \/ Idle /\ ~HalfBroadcast /\ Open("qrA") /\ afterTransactionCommit("s1", "qrA")
    \/ Idle /\ ~HalfBroadcast /\ Open("qrA") /\ afterTransactionRollback("s1", "qrA")
    \/ Idle /\ SecondDelivery
    \/ \E qr \in QueryRunners : \E threw \in BOOLEAN : HookSettles(qr, threw)

SpecTwoSubscribers == InitTwoSubscribers /\ [][NextTwoSubscribers]_vars

\* A subclass that overrides afterTransactionStart without calling super:
\* the start notifications never reach the class, everything else does.
NextStartOverridden ==
    \/ \E qr \in Handles : \E active \in Flags(qr) : Idle /\ afterInsert("s1", qr, active)
    \/ \E qr \in Handles : \E active \in Flags(qr) : Idle /\ afterUpdate("s1", qr, active)
    \/ \E qr \in Handles : \E active \in Flags(qr) : Idle /\ afterRemove("s1", qr, active)
    \/ \E qr \in Handles : Idle /\ afterTransactionCommit("s1", qr)
    \/ \E qr \in Handles : Idle /\ afterTransactionRollback("s1", qr)
    \/ \E qr \in QueryRunners : \E threw \in BOOLEAN : HookSettles(qr, threw)

SpecStartOverridden == Init /\ [][NextStartOverridden]_vars

\* ---------------------------------------------------------------- claims
\* The category an entity notification belongs to.
CategoryOf(op) ==
    CASE op = "insert" -> "inserted"
      [] op = "update" -> "updated"
      [] op = "remove" -> "removed"

EntityOps == {"insert", "update", "remove"}

\* The calls <<category, payload>> of one array of a store, in array order.
CallsOf(st, cat) == [i \in 1..Len(st[cat]) |-> <<cat, st[cat][i]>>]

\* The replay of store st by subscriber s: inserted, then updated, then
\* removed, each in array order, hooks that are not implemented left out.
ExpectedReplay(s, st) ==
    (IF "inserted" \in implemented[s] THEN CallsOf(st, "inserted") ELSE <<>>)
    \o (IF "updated" \in implemented[s] THEN CallsOf(st, "updated") ELSE <<>>)
    \o (IF "removed" \in implemented[s] THEN CallsOf(st, "removed") ELSE <<>>)

\* How often the hook of category cat was called with payload e.
Count(calls, cat, e) ==
    Cardinality({i \in 1..Len(calls) : calls[i] = <<cat, e>>})

IsPrefix(a, b) == Len(a) <= Len(b) /\ a = SubSeq(b, 1, Len(a))

OnHandle == last.qr \in QueryRunners

\* A start at depth 0 followed only by events with the flag true, then the
\* commit: the commit notification of a transaction that is not nested.
FlatCommit == last.op = "commit" /\ OnHandle /\ last.preShape = "flat"

\* C1 (as stated): in a transaction that is not nested, no hook is called
\* before the commit notification, and by the end of the commit notification
\* every event that was in the store has been passed to the hook of its
\* category (where the subclass has one) exactly once, and nothing else has
\* been passed to a hook.
C1_ExactlyOnceAsStated ==
    /\ \A qr \in QueryRunners :
          (shape[qr] = "flat" /\ last.qr = qr) => last.calls = <<>>
    /\ (FlatCommit /\ last.status # "awaiting") =>
          /\ \A c \in implemented[last.sub] : \A i \in 1..Len(last.pre[c]) :
                Count(last.calls, c, last.pre[c][i]) = 1
          /\ \A i \in 1..Len(last.calls) :
                last.calls[i][2] \in Events(last.pre)

\* C1 (amended): in a transaction that is not nested, no hook is called
\* before the commit notification; the commit notification passes to hooks
\* only events that were in the store, each to the hook of its own category
\* and at most once; and when it returns without a hook having thrown, every
\* stored event whose category has an implemented hook was passed exactly
\* once.
C1_ExactlyOnceWhenReplayCompletes ==
    /\ \A qr \in QueryRunners :
          (shape[qr] = "flat" /\ last.qr = qr) => last.calls = <<>>
    /\ FlatCommit =>
          /\ \A i \in 1..Len(last.calls) :
                LET c == last.calls[i][1]
                    e == last.calls[i][2]
                IN  /\ c \in implemented[last.sub]
                    /\ \E k \in 1..Len(last.pre[c]) : last.pre[c][k] = e
                    /\ Count(last.calls, c, e) = 1
          /\ last.status = "returned" =>
                \A c \in implemented[last.sub] : \A k \in 1..Len(last.pre[c]) :
                    Count(last.calls, c, last.pre[c][k]) = 1

\* A commit of a flat transaction that replayed events of two categories.
C1_Witness ==
    /\ FlatCommit
    /\ last.status = "returned"
    /\ Len(last.calls) >= 2
    /\ \E i, j \in 1..Len(last.calls) : last.calls[i][1] # last.calls[j][1]

\* C2: a rollback that takes the depth from 1 to 0 calls no hook and leaves
\* the store empty, and no event that was in the store at such a rollback is
\* passed to a hook by any notification, then or later.
C2_RollbackDiscards ==
    /\ (last.op = "rollback" /\ OnHandle /\ last.preDepth = 1) =>
          /\ last.calls = <<>>
          /\ DepthOf(queryRunner[last.qr]) = 0
          /\ queryRunner[last.qr].store = EmptyStore
    /\ \A i \in 1..Len(last.calls) : last.calls[i][2] \notin rolledBack

\* An outermost rollback that found at least two events in the store.
C2_Witness ==
    /\ last.op = "rollback" /\ OnHandle /\ last.preDepth = 1
    /\ Cardinality(Events(last.pre)) >= 2

\* A commit that dispatches after an earlier transaction was rolled back.
C2_LaterCommit ==
    /\ last.op = "commit" /\ last.calls # <<>> /\ rolledBack # {}


\* C3: a commit that leaves the depth above 0 (an inner commit) calls no
\* hook, returns, and leaves the store as it was; so among the commits that
\* close a scope, only the one that takes the depth from 1 to 0 calls hooks,
\* and it replays the events of every scope of the transaction.
C3_InnerCommitTransparent ==
    /\ (last.op = "commit" /\ OnHandle /\ last.preDepth >= 2) =>
          /\ last.calls = <<>>
          /\ last.status = "returned"
          /\ queryRunner[last.qr].store = last.pre
          /\ DepthOf(queryRunner[last.qr]) = last.preDepth - 1
    /\ (last.op = "commit" /\ OnHandle /\ last.preDepth >= 1 /\ last.calls # <<>>) =>
          last.preDepth = 1
    /\ (last.op = "commit" /\ OnHandle /\ last.preDepth = 1
          /\ last.status = "returned") =>
          last.calls = ExpectedReplay(last.sub, last.pre)

\* start, insert P1, start, insert P2, commit, commit: the second commit has
\* replayed P1 then P2, both of which sat in the store at the inner commit.
C3_Witness ==
    /\ last.op = "commit" /\ OnHandle /\ last.preDepth = 1
    /\ last.status = "returned"
    /\ last.calls = <<<<"inserted", 1>>, <<"inserted", 2>>>>
    /\ innerCommitted = {1, 2}

\* C4: a rollback that takes the depth from 1 to 0 discards the events that
\* were in the store at an earlier inner commit like any others: it calls no
\* hook, leaves no event in the store, and none of those events is passed to
\* a hook by any notification.
C4_OuterRollbackUndoesInnerCommit ==
    /\ (last.op = "rollback" /\ OnHandle /\ last.preDepth = 1
          /\ Events(last.pre) \cap innerCommitted # {}) =>
          /\ last.calls = <<>>
          /\ Events(queryRunner[last.qr].store) = {}
    /\ \A i \in 1..Len(last.calls) :
          last.calls[i][2] \notin (innerCommitted \cap rolledBack)

\* An outermost rollback of a store whose events of two categories had all
\* been through an inner commit.
C4_Witness ==
    /\ last.op = "rollback" /\ OnHandle /\ last.preDepth = 1
    /\ Events(last.pre) \subseteq innerCommitted
    /\ last.pre.inserted # <<>>
    /\ last.pre.updated # <<>>

\* The payloads of an array are in arrival order (payloads are numbered as
\* they arrive).
Ascending(a) == \A i, j \in 1..Len(a) : i < j => a[i] < a[j]

\* C5: the arrays of the store keep arrival order, and the hooks a commit
\* notification has called so far are always an initial part of: the
\* inserted events in arrival order, then the updated events in arrival
\* order, then the removed events in arrival order.
C5_ReplayOrder ==
    /\ \A qr \in QueryRunners : \A c \in CategorySet :
          Ascending(queryRunner[qr].store[c])
    /\ (last.op = "commit" /\ OnHandle) =>
          /\ IsPrefix(last.calls, ExpectedReplay(last.sub, last.pre))
          /\ \A i, j \in 1..Len(last.calls) :
                (i < j /\ last.calls[i][1] = last.calls[j][1]) =>
                    last.calls[i][2] < last.calls[j][2]
          /\ \A i, j \in 1..Len(last.calls) :
                (last.calls[i][1] = "inserted" /\ last.calls[j][1] # "inserted") => i < j
          /\ \A i, j \in 1..Len(last.calls) :
                (last.calls[i][1] = "updated" /\ last.calls[j][1] = "removed") => i < j

\* A replay whose order differs from the arrival order: remove 1, update 2,
\* insert 3 were replayed as insert 3, update 2, remove 1.
C5_Witness ==
    /\ last.op = "commit" /\ OnHandle
    /\ last.calls = <<<<"inserted", 3>>, <<"updated", 2>>, <<"removed", 1>>>>

\* C6: an entity notification with no queryRunner, or with the flag false,
\* calls the hook of its category once with its own payload when the
\* subclass implements it (and no hook otherwise), has settled with the hook
\* when it ends, and leaves the depth and the store of the handle as they
\* were.
C6_ImmediateDispatch ==
    (last.op \in EntityOps /\ (last.qr = NoQR \/ ~last.active)) =>
        /\ last.calls = IF CategoryOf(last.op) \in implemented[last.sub]
                        THEN <<<<CategoryOf(last.op), last.id>>>>
                        ELSE <<>>
        /\ last.status \in {"returned", "threw"}
        /\ last.status = "threw" => last.calls # <<>>
        /\ OnHandle =>
              /\ queryRunner[last.qr].store = last.pre
              /\ DepthOf(queryRunner[last.qr]) = last.preDepth

\* An update with the flag false on a handle that holds a queued event and
\* an open scope: the hook was called, the queue and depth are untouched.
C6_Witness ==
    /\ last.op = "update" /\ OnHandle /\ ~last.active
    /\ last.calls = <<<<"updated", last.id>>>>
    /\ last.preDepth = 1
    /\ Events(last.pre) # {}

\* C7 (as stated): after a commit that took the depth from 1 to 0 and in
\* which a hook threw, the store of the handle is empty.
C7_ClearedDespiteFailure ==
    (last.op = "commit" /\ OnHandle /\ last.preDepth = 1 /\ last.status = "threw") =>
        queryRunner[last.qr].store = EmptyStore

\* C8: when an awaited hook of a replay throws, the commit notification ends
\* by throwing, with no hook called after the one that threw and no
\* suspended replay left to call one.
C8_FailFast ==
    settled.threw =>
        /\ last.op = "commit"
        /\ last.status = "threw"
        /\ Len(last.calls) = settled.n
        /\ task[last.qr].pc = "idle"
        /\ IsPrefix(last.calls, ExpectedReplay(last.sub, last.pre))

\* A replay of three events in which the first hook threw.
C8_Witness ==
    /\ settled.threw
    /\ Len(last.calls) = 1
    /\ Len(ExpectedReplay(last.sub, last.pre)) = 3
    /\ ExpectedReplay(last.sub, last.pre)[1][1] # ExpectedReplay(last.sub, last.pre)[3][1]

\* C9 (as stated): a commit or rollback that arrives at depth 0 leaves the
\* depth at 0, calls no hook and leaves the store as it was.
C9_UnderflowIsNoOp ==
    (last.op \in {"commit", "rollback"} /\ OnHandle /\ last.preDepth = 0) =>
        /\ DepthOf(queryRunner[last.qr]) = 0
        /\ last.calls = <<>>
        /\ queryRunner[last.qr].store = last.pre

\* C10: the depth counter of every handle is at least 0.
C10_DepthNonNegative ==
    \A qr \in QueryRunners : queryRunner[qr].depth >= 0

\* A commit or rollback that arrived at depth 0, after the handle had been
\* through a scope.
C10_Witness ==
    /\ last.op \in {"commit", "rollback"} /\ OnHandle
    /\ last.preDepth = 0
    /\ queryRunner[last.qr].depthIsNumber
    /\ last.preShape = "idle"
    /\ rolledBack # {}

\* C11: a commit that arrives on a handle right after a commit of that handle
\* which replayed the store and returned (so the depth is 0 and nothing was
\* queued in between) calls no hook, returns, and leaves the store empty and
\* the depth 0.
C11_RepeatedCommitDispatchesNothing ==
    (last.op = "commit" /\ OnHandle /\ last.follows = "drained") =>
        /\ last.preDepth = 0
        /\ last.pre = EmptyStore
        /\ last.calls = <<>>
        /\ last.status = "returned"
        /\ queryRunner[last.qr].store = EmptyStore
        /\ DepthOf(queryRunner[last.qr]) = 0

\* A second commit directly after one that replayed the store, both from a
\* subscriber that implements all three hooks.
C11_Witness ==
    /\ last.op = "commit" /\ OnHandle /\ last.follows = "drained"
    /\ implemented[last.sub] = CategorySet
    /\ last.calls = <<>>
    /\ last.status = "returned"

\* C12 (as stated): a soft-remove notification on a handle is queued in the
\* store of the handle when the flag is true, and passed to a hook at once
\* when the flag is false.
C12_SoftRemoveHandled ==
    (last.op = "softRemove" /\ OnHandle) =>
        IF last.active
        THEN last.id \in Events(queryRunner[last.qr].store)
        ELSE Len(last.calls) = 1 /\ last.calls[1][2] = last.id

\* C13 (as stated): when a commit arrives right after a rollback that left
\* the depth above 0, no event queued in the scope that was rolled back is
\* passed to a hook by that commit.
C13_RolledBackScopeNeverDispatched ==
    (last.op = "commit" /\ OnHandle /\ last.follows = "innerRollback") =>
        \A i \in 1..Len(last.calls) : last.calls[i][2] \notin last.preScope

\* The categories of store st that hold an event and whose hook subscriber s
\* does not implement.
SkippedCategories(s, st) ==
    {c \in CategorySet : c \notin implemented[s] /\ Len(st[c]) > 0}

\* C14: a commit that leaves depth 0 calls only hooks that are implemented;
\* it can throw only after it has called one; and when it returns it has
\* passed the stored events of every implemented category, in order, none of
\* a category whose hook is missing, and the store is empty, the events of
\* the skipped categories gone with the others.
C14_UnimplementedSkippedAndCleared ==
    (last.op = "commit" /\ OnHandle /\ last.preDepth <= 1) =>
        /\ \A i \in 1..Len(last.calls) : last.calls[i][1] \in implemented[last.sub]
        /\ last.status = "threw" => last.calls # <<>>
        /\ last.status = "returned" =>
              /\ last.calls = ExpectedReplay(last.sub, last.pre)
              /\ queryRunner[last.qr].store = EmptyStore

\* A commit that returned after it skipped a category holding an event and
\* passed an event of a later category to its hook.
C14_Witness ==
    /\ last.op = "commit" /\ OnHandle /\ last.preDepth = 1
    /\ last.status = "returned"
    /\ "inserted" \in SkippedCategories(last.sub, last.pre)
    /\ last.calls # <<>>
    /\ queryRunner[last.qr].store = EmptyStore

\* C15 (as stated): with notifications arriving while a replay is suspended,
\* a commit passes to hooks only events that were in the store when it
\* arrived, and its final clear removes no event that was queued after it
\* arrived.
C15_NoEarlyDispatchNoLoss ==
    (last.op = "commit" /\ OnHandle) =>
        /\ \A i \in 1..Len(last.calls) : last.calls[i][2] \in Events(last.pre)
        /\ last.dropped = {}

\* C16: a commit has at most one hook in progress, the last one it called;
\* it calls the next hook only in the step in which the one before it
\* fulfilled; and it returns or throws only in the step in which the last
\* hook it called fulfilled or rejected (or without having called any).
C16_SequentialReplay ==
    (last.op = "commit" /\ OnHandle) =>
        /\ last.status = "awaiting" =>
              /\ task[last.qr].pc = "await"
              /\ task[last.qr].rec = last
              /\ ~settled.threw
              /\ Len(last.calls) = settled.n + 1
        /\ last.status = "returned" =>
              /\ task[last.qr].pc = "idle"
              /\ ~settled.threw
              /\ Len(last.calls) = settled.n
        /\ last.status = "threw" =>
              /\ task[last.qr].pc = "idle"
              /\ settled.threw
              /\ Len(last.calls) = settled.n

\* A commit that has called its third hook, the second having just
\* fulfilled, and awaits it.
C16_Witness ==
    /\ last.op = "commit" /\ OnHandle
    /\ last.status = "awaiting"
    /\ settled.n = 2
    /\ Len(last.calls) = 3

C18_DepthCountsOpenScopes ==
    OnHandle =>
        LET d == DepthOf(queryRunner[last.qr])
        IN  /\ last.op = "start" => d = last.preDepth + 1
            /\ (last.op \in {"commit", "rollback"} /\ last.preDepth >= 1) =>
                  /\ d = last.preDepth - 1
                  /\ d = 0 <=> last.preDepth = 1
            /\ last.op \in EntityOps => d = last.preDepth

\* The commit that ends start, start, rollback, commit: the depth went
\* 0, 1, 2, 1 and is 0 again.
C18_Witness ==
    /\ last.op = "commit" /\ OnHandle /\ last.follows = "innerRollback"
    /\ last.preDepth = 1
    /\ DepthOf(queryRunner[last.qr]) = 0

\* C19 (as stated): an entity notification appends its event to the store
\* only when it finds depth 1 or more; and whenever the depth of a handle is
\* 0 and no notification is in progress, the store of the handle is empty.
C19_BufferOnlyWhileOpen ==
    /\ (last.op \in EntityOps /\ OnHandle
          /\ last.id \in Events(queryRunner[last.qr].store)) => last.preDepth >= 1
    /\ \A qr \in QueryRunners :
          (DepthOf(queryRunner[qr]) = 0 /\ Idle) => queryRunner[qr].store = EmptyStore

\* C20 (as stated): the commit of a transaction that is not nested, opened
\* by a start at depth 0, passes to hooks only events that were queued since
\* that start, none that the store held from an earlier transaction.
C20_NoLeakAcrossTransactions ==
    FlatCommit =>
        \A i \in 1..Len(last.calls) : last.calls[i][2] \in last.preScope

\* What a step leaves alone: the hidden fields and the suspended replay of
\* every QueryRunner other than the one the step's notification is for.
OtherHandlesUntouched ==
    \A qr \in QueryRunners :
        last'.qr # qr =>
            /\ queryRunner'[qr] = queryRunner[qr]
            /\ task'[qr] = task[qr]

\* No event is in the stores of two QueryRunners, and a commit passes to
\* hooks only events that were in the store of its own QueryRunner when it
\* arrived, none that is in the store of another.
StoresApart ==
    /\ \A a, b \in QueryRunners :
          a # b => Events(queryRunner[a].store) \cap Events(queryRunner[b].store) = {}
    /\ (last.op = "commit" /\ OnHandle) =>
          \A i \in 1..Len(last.calls) :
              /\ last.calls[i][2] \in Events(last.pre)
              /\ \A b \in QueryRunners \ {last.qr} :
                    last.calls[i][2] \notin Events(queryRunner[b].store)

\* C21: with the notifications of two QueryRunners interleaved, every step
\* leaves the depth, the store and the replay of the QueryRunner it is not
\* for unchanged, and a commit never passes an event of the other
\* QueryRunner's store to a hook.
C21_HandlesIsolated == []StoresApart /\ [][OtherHandlesUntouched]_vars

\* A commit on one QueryRunner has replayed and returned while the other
\* has an open transaction with a queued event, still in place.
C21_Witness ==
    /\ last.op = "commit" /\ last.qr = "qrB"
    /\ last.status = "returned" /\ last.calls # <<>>
    /\ DepthOf(queryRunner["qrA"]) = 1
    /\ Events(queryRunner["qrA"].store) # {}
    /\ DepthOf(queryRunner["qrB"]) = 0

\* C22 (as stated): with two subscribers receiving every notification of a
\* QueryRunner, a commit delivered to either passes each stored event to
\* that subscriber's hook at most once, and exactly once when it returns
\* with the depth at 0.
C22_EachInstanceExactlyOnce ==
    (last.op = "commit" /\ OnHandle) =>
        \A c \in CategorySet : \A k \in 1..Len(last.pre[c]) :
            /\ Count(last.calls, c, last.pre[c][k]) <= 1
            /\ (last.status = "returned" /\ DepthOf(queryRunner[last.qr]) = 0) =>
                  Count(last.calls, c, last.pre[c][k]) = 1

\* C23: when no start notification reaches the class, the depth of every
\* handle stays 0; an entity notification with the flag true is still
\* queued; and every commit notification, whichever scope it closes, starts
\* the replay of everything queued so far at once: it passes the stored
\* events to the hooks in replay order and, when it returns, has passed all
\* of them and left the store empty.
C23_EveryCommitDispatches ==
    /\ \A qr \in QueryRunners : DepthOf(queryRunner[qr]) = 0
    /\ (last.op \in EntityOps /\ OnHandle /\ last.active) =>
          /\ last.calls = <<>>
          /\ queryRunner[last.qr].store =
                [last.pre EXCEPT ![CategoryOf(last.op)] = Append(@, last.id)]
    /\ (last.op = "commit" /\ OnHandle) =>
          /\ IsPrefix(last.calls, ExpectedReplay(last.sub, last.pre))
          /\ ExpectedReplay(last.sub, last.pre) # <<>> => last.calls # <<>>
          /\ last.status = "returned" =>
                /\ last.calls = ExpectedReplay(last.sub, last.pre)
                /\ queryRunner[last.qr].store = EmptyStore

\* A commit that has replayed two queued events and returned, after an
\* earlier event had already left the store.
C23_Witness ==
    /\ last.op = "commit" /\ OnHandle /\ last.preDepth = 0
    /\ last.status = "returned"
    /\ Len(last.calls) = 2
    /\ Events(last.pre) = {2, 3}

\* What a start, commit or rollback without a queryRunner has done: it found
\* depth 0 and no store, called no hook, and returned.
NoHandleNoOp ==
    (last.qr = NoQR /\ last.op \in {"start", "commit", "rollback"}) =>
        /\ last.preDepth = 0
        /\ last.pre = EmptyStore
        /\ last.calls = <<>>
        /\ last.status = "returned"

\* What a notification without a queryRunner leaves alone: the hidden fields
\* of every QueryRunner and every suspended replay.
NoHandleNoWrite ==
    last'.qr = NoQR => (queryRunner' = queryRunner /\ task' = task)

\* C24: a notification without a queryRunner changes no depth and no store
\* and creates neither; start, commit and rollback without a queryRunner
\* find depth 0 and no store, call no hook and return.
C24_NoHandleNoState == []NoHandleNoOp /\ [][NoHandleNoWrite]_vars

\* A commit without a queryRunner has returned while a QueryRunner holds an
\* open transaction with a queued event, and nothing was replayed.
C24_Witness ==
    /\ last.qr = NoQR /\ last.op = "commit"
    /\ last.calls = <<>> /\ last.status = "returned"
    /\ DepthOf(queryRunner["qrA"]) = 1
    /\ Events(queryRunner["qrA"].store) # {}

====
